---- MODULE Spec2Model ----
(***************************************************************************)
(* Model of poetry_to_uv.py: the conversion of a Poetry pyproject.toml     *)
(* into a uv / PEP 621 pyproject.toml.                                     *)
(*                                                                         *)
(* Strings are sequences of one-character strings, so that the regular     *)
(* expressions and the f-string formatting of the program are modelled     *)
(* character by character.  An optional value (a dict key that may be      *)
(* missing, the result of re.match) is the empty sequence when missing     *)
(* and a one-element sequence when present.  A Python dict is a sequence   *)
(* of [key, val] records with distinct keys, in insertion order.           *)
(***************************************************************************)
EXTENDS Integers, Sequences, FiniteSets, TLC

VARIABLES
    pc,               \* position of the running call
    err,              \* the exception that ended the call, "none" when none
    version_arg,      \* version_conversion: its argument
    version_ret,      \* version_conversion: its result
    deps_arg,         \* parse_packages: the mapping it walks
    idx,              \* parse_packages: index of the next entry of the loop
    uv_deps,          \* parse_packages: the main list (passed by reference)
    uv_deps_optional, \* parse_packages: the optional mapping (by reference)
    file_project,     \* [tool.poetry] as written in the file on disk
    pyproject_tool,   \* pyproject_data["tool"]: the keys of the source [tool]
    project,          \* uv_toml["project"] (aliases pyproject_data["tool"]["poetry"])
    uv_tool,          \* uv_toml["tool"]
    dependency_groups,\* uv_toml["dependency-groups"]
    dry_run,          \* args.n
    project_file,     \* what is at the path of the original file
    backup_file,      \* what is at <name>.org
    temp_file,        \* what is at pyproject_temp_uv.toml
    toml_string,      \* main's toml_string, once computed
    result            \* main's result, once computed

vars == <<pc, err, version_arg, version_ret, deps_arg, idx, uv_deps,
          uv_deps_optional, file_project, pyproject_tool, project, uv_tool,
          dependency_groups, dry_run, project_file, backup_file, temp_file,
          toml_string, result>>

-----------------------------------------------------------------------------
(* Bounds of the model. *)

\* longest constraint string given to version_conversion
MaxLen == 3
\* longest author string of the exhaustive single-entry author lists
MaxAuthorLen == 5
\* longest author list built from the representative author strings
MaxAuthors == 2
\* most entries of a dependency mapping
MaxDeps == 2
\* longest extras list of a dependency table
MaxExtras == 2

-----------------------------------------------------------------------------
(* Strings, optional values, dicts. *)

None == <<>>
Some(x) == <<x>>
IsSome(o) == Len(o) > 0
Get(o) == o[1]

StringsUpTo(n, alphabet) == UNION {[1..k -> alphabet] : k \in 0..n}

RECURSIVE Flatten(_)
\* the concatenation of a sequence of sequences
Flatten(ss) == IF ss = <<>> THEN <<>> ELSE Head(ss) \o Flatten(Tail(ss))

\* the index of the first element of s that is in set, 0 when there is none
FirstIn(s, set) ==
    IF \E i \in 1..Len(s) : s[i] \in set
    THEN CHOOSE i \in 1..Len(s) : s[i] \in set /\ \A j \in 1..(i-1) : s[j] \notin set
    ELSE 0

Keys(d) == {d[i].key : i \in 1..Len(d)}
HasKey(d, k) == \E i \in 1..Len(d) : d[i].key = k
Lookup(d, k) == d[CHOOSE i \in 1..Len(d) : d[i].key = k].val
\* d[k] = v: in place when k is a key of d, appended otherwise
DictSet(d, k, v) ==
    IF HasKey(d, k)
    THEN [i \in 1..Len(d) |-> IF d[i].key = k THEN [key |-> k, val |-> v] ELSE d[i]]
    ELSE Append(d, [key |-> k, val |-> v])
\* del d[k]
DictDel(d, k) == SelectSeq(d, LAMBDA e : e.key # k)

\* A TOML value of a dependency table: a string, or a table of which the
\* program reads the keys version, extras and optional.
Str(s) == [kind |-> "str", s |-> s, version |-> None, extras |-> None, optional |-> None]
Table(v, e, o) == [kind |-> "table", s |-> <<>>, version |-> v, extras |-> e, optional |-> o]

Ok(v) == [err |-> "none", val |-> v]
Raise(e) == [err |-> e, val |-> <<>>]

-----------------------------------------------------------------------------
(* version_conversion *)

Digits == {"0", "1", "2", "3", "4", "5", "6", "7", "8", "9"}

\* gt_version.match(s): re.match anchors at the start only, "." is any
\* character but a newline, and ".*" is greedy; the result is group 1
gt_version(s) ==
    IF Len(s) >= 2 /\ s[1] = "^" /\ s[2] \in Digits
    THEN LET nl == FirstIn(s, {"\n"})
         IN  Some(SubSeq(s, 2, IF nl = 0 THEN Len(s) ELSE nl - 1))
    ELSE None

\* version == "*" is False for a dict, and re.match on a dict raises TypeError
version_conversion(version) ==
    IF version.kind = "str" /\ version.s = <<"*">> THEN Ok(<<>>)
    ELSE IF version.kind # "str" THEN Raise("TypeError")
    ELSE IF IsSome(gt_version(version.s)) THEN Ok(<<">", "=">> \o Get(gt_version(version.s)))
    ELSE Raise("ValueError")

-----------------------------------------------------------------------------
(* authors *)

Letters == {"a", "b", "c", "d", "e", "f", "g", "h", "i", "j", "k", "l", "m",
            "n", "o", "p", "q", "r", "s", "t", "u", "v", "w", "x", "y", "z"}
\* \w
WordChars == Letters \cup Digits \cup {"_"}
\* [\w ]
NameClass == WordChars \cup {" "}
\* [\w@.]
EmailClass == WordChars \cup {"@", "."}

\* t matches C+ in full
AllIn(t, C) == Len(t) >= 1 /\ \A i \in 1..Len(t) : t[i] \in C

\* "$" matches at the end of the string and just before a newline that ends
\* the string: what the pattern before "$" has to consume (none of the three
\* patterns can consume a newline)
BeforeDollar(s) ==
    IF Len(s) >= 1 /\ s[Len(s)] = "\n" THEN SubSeq(s, 1, Len(s) - 1) ELSE s

\* user_email.match(s): ^([\w ]+) <([\w@.]+)>$ ; the groups <<name, email>>
user_email(s) ==
    LET t == BeforeDollar(s)
        lt == FirstIn(t, {"<"})
    IN  IF /\ lt >= 3
           /\ t[lt - 1] = " "
           /\ AllIn(SubSeq(t, 1, lt - 2), NameClass)
           /\ t[Len(t)] = ">"
           /\ AllIn(SubSeq(t, lt + 1, Len(t) - 1), EmailClass)
        THEN Some(<<SubSeq(t, 1, lt - 2), SubSeq(t, lt + 1, Len(t) - 1)>>)
        ELSE None

\* only_email.match(s): ^<([\w@.]+)>$ ; group 1
only_email(s) ==
    LET t == BeforeDollar(s)
    IN  IF /\ Len(t) >= 3
           /\ t[1] = "<"
           /\ t[Len(t)] = ">"
           /\ AllIn(SubSeq(t, 2, Len(t) - 1), EmailClass)
        THEN Some(SubSeq(t, 2, Len(t) - 1))
        ELSE None

\* only_user.match(s): ^([\w ]+)$ ; group 1
only_user(s) ==
    LET t == BeforeDollar(s)
    IN  IF AllIn(t, NameClass) THEN Some(t) ELSE None

\* the pieces of the f-strings of lines 47, 50 and 53
NameOpen == <<"{", "n", "a", "m", "e", " ", "=", " ", "\"">>
EmailOpen == <<"{", "e", "m", "a", "i", "l", " ", "=", " ", "\"">>
EmailNext == <<"\"", ",", " ", "e", "m", "a", "i", "l", " ", "=", " ", "\"">>
RecordClose == <<"\"", "}">>

RECURSIVE Join(_, _)
\* sep.join(ss)
Join(sep, ss) ==
    IF ss = <<>> THEN <<>>
    ELSE IF Len(ss) = 1 THEN ss[1]
    ELSE ss[1] \o sep \o Join(sep, Tail(ss))

\* the value of the authors key: a list of strings, or one string
AuthorList(items) == [kind |-> "list", items |-> items, s |-> <<>>]
AuthorStr(s) == [kind |-> "str", items |-> <<>>, s |-> s]
\* bool(x) of such a value
AuthorsTruthy(a) == IF a.kind = "list" THEN a.items # <<>> ELSE a.s # <<>>

\* '[{name = "example", email = "example@email.com"}]'
Placeholder ==
    <<"[">> \o NameOpen \o <<"e", "x", "a", "m", "p", "l", "e">> \o EmailNext
    \o <<"e", "x", "a", "m", "p", "l", "e", "@", "e", "m", "a", "i", "l", ".", "c", "o", "m">>
    \o RecordClose \o <<"]">>

\* lines 45-53: the record of an author string, by the first of the three
\* patterns that matches it; None when none does
author_record(author) ==
    IF IsSome(user_email(author))
    THEN Some(NameOpen \o Get(user_email(author))[1] \o EmailNext
              \o Get(user_email(author))[2] \o RecordClose)
    ELSE IF IsSome(only_email(author))
    THEN Some(EmailOpen \o Get(only_email(author)) \o RecordClose)
    ELSE IF IsSome(only_user(author))
    THEN Some(NameOpen \o Get(only_user(author)) \o RecordClose)
    ELSE None

\* authors_entry without lines 55-60: the entry that matches no pattern is
\* forgotten
authors_entry_dropping(st, author) ==
    IF IsSome(author_record(author))
    THEN [st EXCEPT !.new_authors = Append(@, Get(author_record(author)))]
    ELSE st

\* one turn of the loop of lines 44-61 on st = [new_authors, manual], manual
\* being project.get("authors_manual_action_and_delete")
authors_entry(st, author) ==
    IF IsSome(author_record(author))
    THEN [st EXCEPT !.new_authors = Append(@, Get(author_record(author)))]
    ELSE [st EXCEPT !.manual =
             Some(Append(IF IsSome(@) THEN Get(@) ELSE <<>>, author))]

RECURSIVE authors_loop(_, _)
\* the loop of lines 44-61
authors_loop(st, items) ==
    IF items = <<>> THEN st
    ELSE authors_loop(authors_entry(st, Head(items)), Tail(items))

\* authors(uv_toml), on p = uv_toml["project"]
authors(p) ==
    IF IsSome(p.authors) /\ AuthorsTruthy(Get(p.authors))
    THEN IF Get(p.authors).kind = "list"
         THEN LET st == authors_loop(
                      [new_authors |-> <<>>,
                       manual |-> p.authors_manual_action_and_delete],
                      Get(p.authors).items)
              IN  [p EXCEPT
                     !.authors = Some(AuthorStr(
                         <<"[">> \o Join(<<",", " ">>, st.new_authors) \o <<"]">>)),
                     !.authors_manual_action_and_delete = st.manual]
         ELSE p
    ELSE [p EXCEPT !.authors = Some(AuthorStr(Placeholder))]

-----------------------------------------------------------------------------
(* parse_packages *)

\* bool(x) of a value of a dependency table
Truthy(v) ==
    IF v.kind = "str" THEN v.s # <<>>
    ELSE IsSome(v.version) \/ IsSome(v.extras) \/ IsSome(v.optional)

\* version.get("extras") is truthy: the key is there and the list is not empty
HasExtras(version) == IsSome(version.extras) /\ Get(version.extras) # <<>>
\* version.get("optional") is truthy
IsOptional(version) == IsSome(version.optional) /\ Get(version.optional)

\* version["version"], then version_conversion of it
convert_version_key(version) ==
    IF IsSome(version.version)
    THEN version_conversion(Str(Get(version.version)))
    ELSE Raise("KeyError")

\* lines 110-113: one bracketed entry per extra, in the order of the list
entry_extras(st, name, version) ==
    LET c == convert_version_key(version)
    IN  IF c.err # "none" THEN [st EXCEPT !.err = c.err]
        ELSE [st EXCEPT !.uv_deps = @ \o
                 [i \in 1..Len(Get(version.extras)) |->
                     name \o <<"[">> \o Get(version.extras)[i] \o <<"]">> \o c.val]]

\* line 116: the package goes to the optional mapping
entry_optional(st, name, version) ==
    LET c == convert_version_key(version)
    IN  IF c.err # "none" THEN [st EXCEPT !.err = c.err]
        ELSE [st EXCEPT !.uv_deps_optional = DictSet(@, name, c.val)]

\* line 119: extra is still "", and version is the value as it stands
entry_plain(st, name, version) ==
    LET c == version_conversion(version)
    IN  IF c.err # "none" THEN [st EXCEPT !.err = c.err]
        ELSE [st EXCEPT !.uv_deps = Append(@, name \o c.val)]

\* parse_entry without the continue of line 114: after its bracketed
\* entries the package falls through to line 119, with its version key
parse_entry_no_continue(st, name, version) ==
    IF version.kind = "table" /\ HasExtras(version)
    THEN LET r == entry_extras(st, name, version)
         IN  IF r.err # "none" THEN r
             ELSE entry_plain(r, name, Str(Get(version.version)))
    ELSE IF version.kind = "table" /\ IsOptional(version)
    THEN entry_optional(st, name, version)
    ELSE entry_plain(st, name, version)

\* parse_entry without the continue of line 117: the optional package is
\* appended to the main list as well
parse_entry_optional_in_main(st, name, version) ==
    IF version.kind = "table" /\ HasExtras(version)
    THEN entry_extras(st, name, version)
    ELSE IF version.kind = "table" /\ IsOptional(version)
    THEN LET r == entry_optional(st, name, version)
         IN  IF r.err # "none" THEN r
             ELSE entry_plain(r, name, Str(Get(version.version)))
    ELSE entry_plain(st, name, version)

\* one turn of the loop of lines 104-119, on
\* st = [uv_deps, uv_deps_optional, err]: the two arguments passed by
\* reference and the exception raised, "none" when none
parse_entry(st, name, version) ==
    IF version.kind = "table" /\ HasExtras(version)
    THEN entry_extras(st, name, version)
    ELSE IF version.kind = "table" /\ IsOptional(version)
    THEN entry_optional(st, name, version)
    ELSE entry_plain(st, name, version)

RECURSIVE parse_loop(_, _)
\* the loop of lines 104-119: an exception ends it
parse_loop(st, deps) ==
    IF deps = <<>> \/ st.err # "none" THEN st
    ELSE parse_loop(parse_entry(st, Head(deps).key, Head(deps).val), Tail(deps))

parse_packages(deps, deps_list, deps_optional) ==
    parse_loop([uv_deps |-> deps_list, uv_deps_optional |-> deps_optional,
                err |-> "none"], deps)

-----------------------------------------------------------------------------
(* The steps of main on uv_toml["project"]. *)

PYTHON == <<"p", "y", "t", "h", "o", "n">>

\* the value of the dependencies key: the table of the source, or the list
\* that dependencies() puts in its place
DepTable(d) == [kind |-> "table", table |-> d, list |-> <<>>]
DepList(l) == [kind |-> "list", table |-> <<>>, list |-> l]

\* the value of the license key
LicenseStr(s) == [kind |-> "str", text |-> s]
LicenseTable(s) == [kind |-> "table", text |-> s]

\* a [tool.poetry] section with every key missing
EmptyProject ==
    [authors |-> None, authors_manual_action_and_delete |-> None,
     license |-> None, dependencies |-> None, requires_python |-> None,
     group |-> None, extras |-> None, optional_dependencies |-> None]

\* project_license(uv_toml)
project_license(p) ==
    IF IsSome(p.license) /\ Get(p.license).text # <<>> /\ Get(p.license).kind = "str"
    THEN [p EXCEPT !.license = Some(LicenseTable(Get(p.license).text))]
    ELSE p

\* python_version(uv_toml): [err, project]
python_version(p) ==
    IF ~IsSome(p.dependencies) THEN [err |-> "KeyError", project |-> p]
    ELSE LET d == Get(p.dependencies).table
         IN  IF ~(HasKey(d, PYTHON) /\ Truthy(Lookup(d, PYTHON)))
             THEN [err |-> "none", project |-> p]
             ELSE LET c == version_conversion(Lookup(d, PYTHON))
                  IN  IF c.err # "none" THEN [err |-> c.err, project |-> p]
                      ELSE [err |-> "none",
                            project |-> [p EXCEPT
                                !.requires_python = Some(c.val),
                                !.dependencies = Some(DepTable(DictDel(d, PYTHON)))]]

\* uv_toml["project"].get("group", {}).get("dev", {})
DevGroup(p) ==
    IF IsSome(p.group) /\ IsSome(Get(p.group).dev)
    THEN Get(Get(p.group).dev)
    ELSE [dependencies |-> None, optional |-> None]

\* ... .get("dependencies", {})
DevDeps(p) ==
    IF IsSome(DevGroup(p).dependencies) THEN Get(DevGroup(p).dependencies) ELSE <<>>

\* dev_dependencies where the group table is kept after its dev key is deleted
dev_dependencies_keeping_group(p, groups) ==
    IF DevDeps(p) = <<>> THEN [err |-> "none", project |-> p, groups |-> groups]
    ELSE LET st == parse_packages(DevDeps(p), <<>>, <<>>)
         IN  IF st.err # "none" THEN [err |-> st.err, project |-> p, groups |-> groups]
             ELSE [err |-> "none",
                   groups |-> Some(<<[key |-> "dev", val |-> st.uv_deps]>>),
                   project |-> [p EXCEPT !.group = Some([Get(@) EXCEPT !.dev = None])]]

\* dev_dependencies(uv_toml): [err, project, groups], groups being
\* uv_toml["dependency-groups"].  The optional packages of the dev table go
\* to the dict that is the default of parse_packages' third parameter,
\* which nothing reads.
dev_dependencies(p, groups) ==
    IF DevDeps(p) = <<>> THEN [err |-> "none", project |-> p, groups |-> groups]
    ELSE LET st == parse_packages(DevDeps(p), <<>>, <<>>)
         IN  IF st.err # "none" THEN [err |-> st.err, project |-> p, groups |-> groups]
             ELSE [err |-> "none",
                   groups |-> Some(<<[key |-> "dev", val |-> st.uv_deps]>>),
                   project |-> [p EXCEPT !.group =
                       IF Get(@).others = <<>> THEN None
                       ELSE Some([Get(@) EXCEPT !.dev = None])]]

RECURSIVE group_list_skipping(_, _)
\* group_list with a package that is not in the optional mapping left out
\* instead of raising KeyError
group_list_skipping(xs, optional) ==
    IF xs = <<>> THEN Ok(<<>>)
    ELSE LET rest == group_list_skipping(Tail(xs), optional)
         IN  IF ~HasKey(optional, Head(xs)) THEN rest
             ELSE Ok(<<Head(xs) \o Lookup(optional, Head(xs))>> \o rest.val)

RECURSIVE group_list(_, _)
\* line 135, for the packages xs of one extras group: [err, val]
group_list(xs, optional) ==
    IF xs = <<>> THEN Ok(<<>>)
    ELSE IF ~HasKey(optional, Head(xs)) THEN Raise("KeyError")
    ELSE LET rest == group_list(Tail(xs), optional)
         IN  IF rest.err # "none" THEN rest
             ELSE Ok(<<Head(xs) \o Lookup(optional, Head(xs))>> \o rest.val)

\* the loop of lines 134-135 over the popped extras: [err, val]
RECURSIVE optional_groups(_, _)
optional_groups(extras, optional) ==
    IF extras = <<>> THEN Ok(<<>>)
    ELSE LET g == group_list(Head(extras).val, optional)
         IN  IF g.err # "none" THEN g
             ELSE LET rest == optional_groups(Tail(extras), optional)
                  IN  IF rest.err # "none" THEN rest
                      ELSE Ok(<<[key |-> Head(extras).key, val |-> g.val]>> \o rest.val)

\* dependencies(uv_toml): [err, project]
dependencies(p) ==
    IF ~IsSome(p.dependencies) \/ Get(p.dependencies).table = <<>>
    THEN [err |-> "none", project |-> p]
    ELSE LET st == parse_packages(Get(p.dependencies).table, <<>>, <<>>)
             p1 == [p EXCEPT !.dependencies = Some(DepList(st.uv_deps))]
             popped == [p1 EXCEPT !.extras = None]
             og == optional_groups(IF IsSome(p1.extras) THEN Get(p1.extras) ELSE <<>>,
                                   st.uv_deps_optional)
         IN  IF st.err # "none" THEN [err |-> st.err, project |-> p]
             ELSE IF st.uv_deps_optional = <<>> THEN [err |-> "none", project |-> p1]
             ELSE IF og.err # "none" THEN [err |-> og.err, project |-> popped]
             ELSE [err |-> "none",
                   project |-> [popped EXCEPT !.optional_dependencies = Some(og.val)]]

RECURSIVE tools_keeping_poetry(_, _)
\* tools without the test of line 142: poetry is copied like the others
tools_keeping_poetry(target, source) ==
    IF source = <<>> THEN target
    ELSE tools_keeping_poetry(DictSet(target, Head(source).key, Head(source).val),
                              Tail(source))

RECURSIVE tools(_, _)
\* tools(uv_toml, pyproject_data), on uv_toml["tool"] and
\* pyproject_data["tool"]
tools(target, source) ==
    IF source = <<>> THEN target
    ELSE IF Head(source).key = "poetry" THEN tools(target, Tail(source))
    ELSE tools(DictSet(target, Head(source).key, Head(source).val), Tail(source))

-----------------------------------------------------------------------------
(* main, one action per statement of lines 176-191.  An exception ends the *)
(* run: pc becomes "aborted" and err names the exception.                  *)

Load ==
    /\ pc = "load"
    /\ IF HasKey(pyproject_tool, "poetry")
       THEN /\ project' = file_project
            /\ uv_tool' = <<>>
            /\ pc' = "authors"
            /\ err' = err
       ELSE /\ pc' = "aborted"
            /\ err' = "KeyError"
            /\ UNCHANGED <<project, uv_tool>>
    /\ UNCHANGED <<version_arg, version_ret, deps_arg, idx, uv_deps,
                   uv_deps_optional, file_project, pyproject_tool,
                   dependency_groups, dry_run, project_file, backup_file,
                   temp_file, toml_string, result>>

Authors ==
    /\ pc = "authors"
    /\ project' = authors(project)
    /\ pc' = "project_license"
    /\ UNCHANGED <<err, version_arg, version_ret, deps_arg, idx, uv_deps,
                   uv_deps_optional, file_project, pyproject_tool, uv_tool,
                   dependency_groups, dry_run, project_file, backup_file,
                   temp_file, toml_string, result>>

ProjectLicense ==
    /\ pc = "project_license"
    /\ project' = project_license(project)
    /\ pc' = "python_version"
    /\ UNCHANGED <<err, version_arg, version_ret, deps_arg, idx, uv_deps,
                   uv_deps_optional, file_project, pyproject_tool, uv_tool,
                   dependency_groups, dry_run, project_file, backup_file,
                   temp_file, toml_string, result>>

PythonVersion ==
    /\ pc = "python_version"
    /\ LET r == python_version(project)
       IN  /\ project' = r.project
           /\ err' = r.err
           /\ pc' = IF r.err = "none" THEN "dev_dependencies" ELSE "aborted"
    /\ UNCHANGED <<version_arg, version_ret, deps_arg, idx, uv_deps,
                   uv_deps_optional, file_project, pyproject_tool, uv_tool,
                   dependency_groups, dry_run, project_file, backup_file,
                   temp_file, toml_string, result>>

DevDependencies ==
    /\ pc = "dev_dependencies"
    /\ LET r == dev_dependencies(project, dependency_groups)
       IN  /\ project' = r.project
           /\ dependency_groups' = r.groups
           /\ err' = r.err
           /\ pc' = IF r.err = "none" THEN "dependencies" ELSE "aborted"
    /\ UNCHANGED <<version_arg, version_ret, deps_arg, idx, uv_deps,
                   uv_deps_optional, file_project, pyproject_tool, uv_tool,
                   dry_run, project_file, backup_file, temp_file, toml_string,
                   result>>

Dependencies ==
    /\ pc = "dependencies"
    /\ LET r == dependencies(project)
       IN  /\ project' = r.project
           /\ err' = r.err
           /\ pc' = IF r.err = "none" THEN "tools" ELSE "aborted"
    /\ UNCHANGED <<version_arg, version_ret, deps_arg, idx, uv_deps,
                   uv_deps_optional, file_project, pyproject_tool, uv_tool,
                   dependency_groups, dry_run, project_file, backup_file,
                   temp_file, toml_string, result>>

Tools ==
    /\ pc = "tools"
    /\ uv_tool' = tools(uv_tool, pyproject_tool)
    /\ pc' = "rename"
    /\ UNCHANGED <<err, version_arg, version_ret, deps_arg, idx, uv_deps,
                   uv_deps_optional, file_project, pyproject_tool, project,
                   dependency_groups, dry_run, project_file, backup_file,
                   temp_file, toml_string, result>>

\* lines 186-187: project_file.rename(backup_file), unless dry_run
Rename ==
    /\ pc = "rename"
    /\ IF dry_run
       THEN UNCHANGED <<project_file, backup_file>>
       ELSE /\ backup_file' = project_file
            /\ project_file' = "absent"
    /\ pc' = "dumps"
    /\ UNCHANGED <<err, version_arg, version_ret, deps_arg, idx, uv_deps,
                   uv_deps_optional, file_project, pyproject_tool, project,
                   uv_tool, dependency_groups, dry_run, temp_file, toml_string,
                   result>>

\* the text toml.dumps gives: the document it renders, the form of its
\* authors line (the value of authors is a string by now: a quoted string),
\* and whether the text still has its backslashes
dumps(p, tool, groups) ==
    [project |-> p, tool |-> tool, dependency_groups |-> groups,
     authors_line |-> "string", backslashes |-> TRUE]

\* line 189
Dumps ==
    /\ pc = "dumps"
    /\ toml_string' = Some(dumps(project, uv_tool, dependency_groups))
    /\ pc' = "modify_authors_line"
    /\ UNCHANGED <<err, version_arg, version_ret, deps_arg, idx, uv_deps,
                   uv_deps_optional, file_project, pyproject_tool, project,
                   uv_tool, dependency_groups, dry_run, project_file,
                   backup_file, temp_file, result>>

\* modify_authors_line(dumped_txt): authors = "[...]" becomes authors = [...]
\* and every backslash of the text is removed
modify_authors_line(txt) ==
    LET a == Get(txt.project.authors).s
    IN  [txt EXCEPT
           !.authors_line =
               IF Len(a) >= 2 /\ a[1] = "[" /\ a[Len(a)] = "]" THEN "array" ELSE @,
           !.backslashes = FALSE]

\* line 190
ModifyAuthorsLine ==
    /\ pc = "modify_authors_line"
    /\ result' = Some(modify_authors_line(Get(toml_string)))
    /\ pc' = "write_text"
    /\ UNCHANGED <<err, version_arg, version_ret, deps_arg, idx, uv_deps,
                   uv_deps_optional, file_project, pyproject_tool, project,
                   uv_tool, dependency_groups, dry_run, project_file,
                   backup_file, temp_file, toml_string>>

\* line 191: output_file is pyproject_temp_uv.toml in a dry run, and the
\* path of the original otherwise
WriteText ==
    /\ pc = "write_text"
    /\ IF dry_run
       THEN temp_file' = "converted" /\ UNCHANGED project_file
       ELSE project_file' = "converted" /\ UNCHANGED temp_file
    /\ pc' = "done"
    /\ UNCHANGED <<err, version_arg, version_ret, deps_arg, idx, uv_deps,
                   uv_deps_optional, file_project, pyproject_tool, project,
                   uv_tool, dependency_groups, dry_run, backup_file,
                   toml_string, result>>

Next ==
    \/ Load
    \/ Authors
    \/ ProjectLicense
    \/ PythonVersion
    \/ DevDependencies
    \/ Dependencies
    \/ Tools
    \/ Rename
    \/ Dumps
    \/ ModifyAuthorsLine
    \/ WriteText

-----------------------------------------------------------------------------
(* The functions called on their own. *)

\* version_conversion(version_arg)
VersionConversion ==
    /\ pc = "call version_conversion"
    /\ version_ret' = version_conversion(version_arg)
    /\ pc' = "returned"
    /\ UNCHANGED <<err, version_arg, deps_arg, idx, uv_deps, uv_deps_optional,
                   file_project, pyproject_tool, project, uv_tool,
                   dependency_groups, dry_run, project_file, backup_file,
                   temp_file, toml_string, result>>

\* authors(uv_toml)
AuthorsCall ==
    /\ pc = "call authors"
    /\ project' = authors(project)
    /\ pc' = "returned"
    /\ UNCHANGED <<err, version_arg, version_ret, deps_arg, idx, uv_deps,
                   uv_deps_optional, file_project, pyproject_tool, uv_tool,
                   dependency_groups, dry_run, project_file, backup_file,
                   temp_file, toml_string, result>>

\* parse_packages(deps_arg, uv_deps, uv_deps_optional): one turn of its loop
ParseEntry ==
    /\ pc = "in parse_packages"
    /\ err = "none"
    /\ idx <= Len(deps_arg)
    /\ LET st == parse_entry([uv_deps |-> uv_deps,
                              uv_deps_optional |-> uv_deps_optional,
                              err |-> "none"],
                             deps_arg[idx].key, deps_arg[idx].val)
       IN  /\ uv_deps' = st.uv_deps
           /\ uv_deps_optional' = st.uv_deps_optional
           /\ err' = st.err
    /\ idx' = idx + 1
    /\ UNCHANGED <<pc, version_arg, version_ret, deps_arg, file_project,
                   pyproject_tool, project, uv_tool, dependency_groups,
                   dry_run, project_file, backup_file, temp_file, toml_string,
                   result>>

-----------------------------------------------------------------------------
(* The inputs. *)

\* the sequences of at most n names, none repeated
KeySeqs(names, n) ==
    {ks \in StringsUpTo(n, names) : \A i, j \in 1..Len(ks) : i # j => ks[i] # ks[j]}
\* the dict with the keys ks, in that order, and the values vs
Mapping(ks, vs) == [i \in 1..Len(ks) |-> [key |-> ks[i], val |-> vs[i]]]
\* the dicts of at most n entries over names
Mappings(names, values, n) ==
    UNION {{Mapping(ks, vs) : vs \in [1..Len(ks) -> values]} : ks \in KeySeqs(names, n)}

ConstraintAlphabet == {"^", "1", ".", "*", ",", "~", "\n"}
AuthorAlphabet == {"a", " ", "<", ">", "\n"}

\* author strings of each shape, and of none
RepAuthors ==
    {<<"a", " ", "<", "a", "@", "a", ">">>, <<"<", "a", "@", "a", ">">>,
     <<"a", " ", "a">>, <<"a", "<", "a", ">">>, <<"a", "\n">>, <<"<", ">">>}

AuthorInputs ==
    {None, Some(AuthorStr(<<"a">>))}
    \cup {Some(AuthorList(<<a>>)) : a \in StringsUpTo(MaxAuthorLen, AuthorAlphabet)}
    \cup {Some(AuthorList(l)) : l \in StringsUpTo(MaxAuthors, RepAuthors)}

PkgNames == {<<"p">>, <<"q">>}
ExtraNames == {<<"x">>, <<"y">>}
VersionStrings == {<<"^", "1">>, <<"*">>, <<"~", "1">>}

\* every shape of a dependency value: a constraint, or a table with or
\* without each of its three keys
DepValues ==
    {Str(v) : v \in VersionStrings}
    \cup {Table(v, e, o) :
            v \in {None} \cup {Some(x) : x \in {<<"^", "1">>, <<"~", "1">>}},
            e \in {None} \cup {Some(l) : l \in StringsUpTo(MaxExtras, ExtraNames)},
            o \in {None, Some(TRUE), Some(FALSE)}}

\* the dependency values of the documents given to main
MainValues ==
    {Str(v) : v \in VersionStrings}
    \cup {Table(Some(<<"^", "1">>), e, o) :
            e \in {None, Some(<<<<"x">>, <<"y">>>>)},
            o \in {None, Some(TRUE)}}

ToolKeys == {"poetry", "black", "ruff"}
ToolData == {"line-length = 88", "select = E"}
\* the [tool] sections: poetry with or without other tools around it
ToolSections ==
    {t \in Mappings(ToolKeys, ToolData, 3) :
        \A i \in 1..Len(t) : t[i].key = "poetry" => t[i].val = "line-length = 88"}

DevTable(d, o) == [dependencies |-> d, optional |-> o]
Group(dev, others) == [dev |-> dev, others |-> others]
DocsGroup == <<[key |-> "docs", val |-> "sphinx"]>>

GroupValues ==
    {None}
    \cup {Some(Group(dev, others)) :
            dev \in {None} \cup {Some(DevTable(d, o)) :
                        d \in {None} \cup {Some(m) : m \in Mappings(PkgNames, MainValues, MaxDeps)},
                        o \in {None, Some(TRUE)}},
            others \in {<<>>, DocsGroup}}

ExtrasValues ==
    {None,
     Some(<<[key |-> "g", val |-> <<<<"p">>>>]>>),
     Some(<<[key |-> "g", val |-> <<<<"p">>, <<"q">>>>]>>),
     Some(<<[key |-> "g", val |-> <<<<"p">>>>], [key |-> "h", val |-> <<<<"q">>>>]>>)}

PythonOnly == <<[key |-> PYTHON, val |-> Str(<<"^", "3">>)]>>

\* the state before main runs on a file holding the section p and the
\* [tool] keys t
InitMain(sections, projects, flags) ==
    /\ pc = "load"
    /\ err = "none"
    /\ version_arg = Str(<<>>)
    /\ version_ret = Raise("pending")
    /\ deps_arg = <<>>
    /\ idx = 1
    /\ uv_deps = <<>>
    /\ uv_deps_optional = <<>>
    /\ file_project \in projects
    /\ pyproject_tool \in sections
    /\ project = EmptyProject
    /\ uv_tool = <<>>
    /\ dependency_groups = None
    /\ dry_run \in flags
    /\ project_file = "original"
    /\ backup_file = "absent"
    /\ temp_file = "absent"
    /\ toml_string = None
    /\ result = None

\* documents of every layout of [tool], around a few poetry sections
Init ==
    InitMain(ToolSections,
             {[EmptyProject EXCEPT !.authors = a, !.license = l, !.dependencies = d,
                                   !.group = g] :
                 a \in {None, Some(AuthorList(<<<<"a", " ", "<", "a", ">">>, <<"<">>>>))},
                 l \in {None, Some(LicenseStr(<<"M", "I", "T">>))},
                 d \in {None, Some(DepTable(PythonOnly)),
                        Some(DepTable(PythonOnly \o <<[key |-> <<"p">>, val |-> Str(<<"^", "1">>)]>>)),
                        Some(DepTable(<<[key |-> <<"p">>, val |-> Str(<<"~", "1">>)]>>))},
                 g \in {None,
                        Some(Group(Some(DevTable(Some(<<[key |-> <<"q">>, val |-> Str(<<"*">>)]>>), None)), <<>>))}},
             BOOLEAN)

Spec == Init /\ [][Next]_vars

\* documents of every dev group, converted in a dry run
InitDev ==
    InitMain({<<[key |-> "poetry", val |-> "line-length = 88"]>>},
             {[EmptyProject EXCEPT !.dependencies = d, !.group = g, !.extras = e] :
                 d \in {Some(DepTable(PythonOnly)),
                        Some(DepTable(PythonOnly \o <<[key |-> <<"p">>, val |-> Table(Some(<<"^", "1">>), None, Some(TRUE))]>>))},
                 g \in GroupValues,
                 e \in {None, Some(<<[key |-> "g", val |-> <<<<"p">>>>]>>)}},
             {TRUE})

SpecDev == InitDev /\ [][Next]_vars

\* documents of every dependency table and extras declaration, without
\* authors, license or dev group, converted in a dry run
InitDeps ==
    InitMain({<<[key |-> "poetry", val |-> "line-length = 88"]>>},
             {[EmptyProject EXCEPT !.dependencies = d, !.extras = e] :
                 d \in {None} \cup {Some(DepTable(m)) :
                          m \in Mappings(PkgNames \cup {PYTHON}, MainValues, MaxDeps)},
                 e \in ExtrasValues},
             {TRUE})

SpecDeps == InitDeps /\ [][Next]_vars

InitVersion ==
    /\ pc = "call version_conversion"
    /\ err = "none"
    /\ version_arg \in {Str(v) : v \in StringsUpTo(MaxLen, ConstraintAlphabet)}
    /\ version_ret = Raise("pending")
    /\ deps_arg = <<>>
    /\ idx = 1
    /\ uv_deps = <<>>
    /\ uv_deps_optional = <<>>
    /\ file_project = EmptyProject
    /\ pyproject_tool = <<>>
    /\ project = EmptyProject
    /\ uv_tool = <<>>
    /\ dependency_groups = None
    /\ dry_run = TRUE
    /\ project_file = "original"
    /\ backup_file = "absent"
    /\ temp_file = "absent"
    /\ toml_string = None
    /\ result = None

SpecVersion == InitVersion /\ [][VersionConversion]_vars

InitAuthors ==
    /\ pc = "call authors"
    /\ err = "none"
    /\ version_arg = Str(<<>>)
    /\ version_ret = Raise("pending")
    /\ deps_arg = <<>>
    /\ idx = 1
    /\ uv_deps = <<>>
    /\ uv_deps_optional = <<>>
    /\ file_project \in {[EmptyProject EXCEPT !.authors = a] : a \in AuthorInputs}
    /\ pyproject_tool = <<>>
    /\ project = file_project
    /\ uv_tool = <<>>
    /\ dependency_groups = None
    /\ dry_run = TRUE
    /\ project_file = "original"
    /\ backup_file = "absent"
    /\ temp_file = "absent"
    /\ toml_string = None
    /\ result = None

SpecAuthors == InitAuthors /\ [][AuthorsCall]_vars

InitPackages ==
    /\ pc = "in parse_packages"
    /\ err = "none"
    /\ version_arg = Str(<<>>)
    /\ version_ret = Raise("pending")
    /\ \E ks \in KeySeqs(PkgNames, MaxDeps) :
           \E vs \in [1..Len(ks) -> DepValues] : deps_arg = Mapping(ks, vs)
    /\ idx = 1
    /\ uv_deps = <<>>
    /\ uv_deps_optional = <<>>
    /\ file_project = EmptyProject
    /\ pyproject_tool = <<>>
    /\ project = EmptyProject
    /\ uv_tool = <<>>
    /\ dependency_groups = None
    /\ dry_run = TRUE
    /\ project_file = "original"
    /\ backup_file = "absent"
    /\ temp_file = "absent"
    /\ toml_string = None
    /\ result = None

SpecPackages == InitPackages /\ [][ParseEntry]_vars

-----------------------------------------------------------------------------
(* What the claims are stated with. *)

\* a numeric version: digits and dots, a digit first
NumericVersion(x) ==
    /\ Len(x) >= 1
    /\ x[1] \in Digits
    /\ \A i \in 1..Len(x) : x[i] \in Digits \cup {"."}

\* the caret form ^X
CaretForm(v) == Len(v) >= 2 /\ v[1] = "^" /\ NumericVersion(Tail(v))
Translatable(v) == v = <<"*">> \/ CaretForm(v)
\* the constraint a translatable v stands for: nothing, or >=X
Translated(v) == IF v = <<"*">> THEN <<>> ELSE <<">", "=">> \o Tail(v)

\* the steps of main after dependencies() has returned
AfterDependencies ==
    {"tools", "rename", "dumps", "modify_authors_line", "write_text", "done"}
\* the steps of main after tools() has returned
AfterTools == AfterDependencies \ {"tools"}

-----------------------------------------------------------------------------
(* C1 *)

\* C1: version_conversion classifies every constraint string: "*" gives the
\* empty string, a caret form ^X with X a numeric version gives >=X, and
\* every other string raises the unsupported-constraint error (ValueError).
C1_TotalClassification ==
    pc = "returned" =>
        IF version_arg.s = <<"*">> THEN version_ret = Ok(<<>>)
        ELSE IF CaretForm(version_arg.s)
        THEN version_ret = Ok(<<">", "=">> \o Tail(version_arg.s))
        ELSE version_ret.err = "ValueError"

-----------------------------------------------------------------------------
(* C2 *)

\* the substrings of s
Parts(s) == {SubSeq(s, i, j) : i, j \in 1..Len(s)}

\* the records an author string stands for, by its shape: "Name <email>",
\* "<email>" or "Name", each followed by one of tails
ShapeRecords(s, tails) ==
    {NameOpen \o n \o EmailNext \o e \o RecordClose : <<n, e>> \in
        {ne \in Parts(s) \X Parts(s) :
            /\ AllIn(ne[1], NameClass) /\ AllIn(ne[2], EmailClass)
            /\ s \in {ne[1] \o <<" ", "<">> \o ne[2] \o <<">">> \o t : t \in tails}}}
    \cup {EmailOpen \o e \o RecordClose : e \in
        {e \in Parts(s) : /\ AllIn(e, EmailClass)
                          /\ s \in {<<"<">> \o e \o <<">">> \o t : t \in tails}}}
    \cup {NameOpen \o n \o RecordClose : n \in
        {n \in Parts(s) : AllIn(n, NameClass) /\ s \in {n \o t : t \in tails}}}

\* the authors step has partitioned the author list of the file by
\* ShapeRecords(_, tails): every entry of a shape gives exactly one record,
\* the records are the transformed list in input order, the entries of no
\* shape are the manual-action bucket, verbatim and in input order, and no
\* entry is in both or in neither
Partitioned(tails) ==
    LET items == Get(file_project.authors).items
        shaped == SelectSeq(items, LAMBDA a : ShapeRecords(a, tails) # {})
        others == SelectSeq(items, LAMBDA a : ShapeRecords(a, tails) = {})
    IN  /\ \A i \in 1..Len(shaped) : Cardinality(ShapeRecords(shaped[i], tails)) = 1
        /\ project.authors = Some(AuthorStr(
               IF items = <<>> THEN Placeholder
               ELSE <<"[">>
                    \o Join(<<",", " ">>,
                            [i \in 1..Len(shaped) |->
                                CHOOSE r \in ShapeRecords(shaped[i], tails) : TRUE])
                    \o <<"]">>))
        /\ project.authors_manual_action_and_delete =
               IF others = <<>> THEN None ELSE Some(others)
        /\ Len(shaped) + Len(others) = Len(items)

\* the authors step has returned from a section whose authors are a list
ListConverted ==
    /\ pc = "returned"
    /\ IsSome(file_project.authors)
    /\ Get(file_project.authors).kind = "list"

-----------------------------------------------------------------------------
(* C3, C4, C9: one turn of the loop of parse_packages *)

\* the loop is about to work on an entry that is a table
AtTable == pc = "in parse_packages" /\ err = "none" /\ idx <= Len(deps_arg)
              /\ deps_arg[idx].val.kind = "table"

\* C3: an entry of package p with a version v and a non-empty extras list
\* e1..en appends exactly p[e1]<translated v> .. p[en]<translated v> to the
\* main list, in the order of the extras list and when the walk reaches p,
\* no bracket-less entry for p, and nothing to the optional mapping.
C3_ExtrasExpanded ==
    [][(/\ AtTable
        /\ HasExtras(deps_arg[idx].val)
        /\ IsSome(deps_arg[idx].val.version)
        /\ Translatable(Get(deps_arg[idx].val.version))) =>
            LET p == deps_arg[idx].key
                e == Get(deps_arg[idx].val.extras)
                v == Get(deps_arg[idx].val.version)
            IN  /\ err' = "none"
                /\ uv_deps' = uv_deps \o
                      [i \in 1..Len(e) |-> p \o <<"[">> \o e[i] \o <<"]">> \o Translated(v)]
                /\ uv_deps_optional' = uv_deps_optional
                /\ idx' = idx + 1]_vars

\* the walk has passed, as its second entry, a table with two extras
C3_Witness ==
    /\ pc = "in parse_packages"
    /\ err = "none"
    /\ idx = 3
    /\ deps_arg[2].val.kind = "table"
    /\ IsSome(deps_arg[2].val.extras)
    /\ Len(Get(deps_arg[2].val.extras)) = 2
    /\ Get(deps_arg[2].val.extras)[1] # Get(deps_arg[2].val.extras)[2]
    /\ Len(uv_deps) = 3

\* C4: an entry of package p with a truthy optional flag and no extras adds
\* nothing to the main list and records p -> <translated version> in the
\* optional mapping; the entries of the other packages stay as they are.
C4_OptionalDeferred ==
    [][(/\ AtTable
        /\ ~HasExtras(deps_arg[idx].val)
        /\ IsOptional(deps_arg[idx].val)
        /\ IsSome(deps_arg[idx].val.version)
        /\ Translatable(Get(deps_arg[idx].val.version))) =>
            LET p == deps_arg[idx].key
                v == Get(deps_arg[idx].val.version)
            IN  /\ err' = "none"
                /\ uv_deps' = uv_deps
                /\ Keys(uv_deps_optional') = Keys(uv_deps_optional) \cup {p}
                /\ Lookup(uv_deps_optional', p) = Translated(v)
                /\ \A k \in Keys(uv_deps_optional) \ {p} :
                       Lookup(uv_deps_optional', k) = Lookup(uv_deps_optional, k)
                /\ idx' = idx + 1]_vars

\* the walk has passed an optional package after a plain one: the main list
\* holds the plain one only, the optional mapping the optional one
C4_Witness ==
    /\ pc = "in parse_packages"
    /\ err = "none"
    /\ idx = 3
    /\ deps_arg[1].val.kind = "str"
    /\ deps_arg[2].val.kind = "table"
    /\ IsOptional(deps_arg[2].val)
    /\ Len(uv_deps) = 1
    /\ Keys(uv_deps_optional) = {deps_arg[2].key}

\* C9: an entry that is a table with neither a non-empty extras list nor a
\* truthy optional flag gives one bracket-less entry
\* name<translated constraint of the table's version> in the main list, as
\* a scalar constraint does, and does not fail.
C9_PlainTable ==
    \A k \in 1..Len(deps_arg) :
        (/\ pc = "in parse_packages"
         /\ idx = k + 1
         /\ deps_arg[k].val.kind = "table"
         /\ ~HasExtras(deps_arg[k].val)
         /\ ~IsOptional(deps_arg[k].val)
         /\ IsSome(deps_arg[k].val.version)
         /\ Translatable(Get(deps_arg[k].val.version))) =>
            /\ err = "none"
            /\ uv_deps # <<>>
            /\ uv_deps[Len(uv_deps)] =
                   deps_arg[k].key \o Translated(Get(deps_arg[k].val.version))

-----------------------------------------------------------------------------
(* C5 *)

\* the packages that the extras declaration of section p names
ExtrasPackages(p) ==
    IF IsSome(p.extras)
    THEN UNION {{Get(p.extras)[i].val[j] : j \in 1..Len(Get(p.extras)[i].val)} :
                   i \in 1..Len(Get(p.extras))}
    ELSE {}

\* the dependency table of section p
TableOf(p) ==
    IF IsSome(p.dependencies) /\ Get(p.dependencies).kind = "table"
    THEN Get(p.dependencies).table
    ELSE <<>>

\* the packages of the dependency table of p with a truthy optional flag
MarkedOptional(p) ==
    {TableOf(p)[i].key : i \in
        {i \in 1..Len(TableOf(p)) :
            TableOf(p)[i].val.kind = "table" /\ IsOptional(TableOf(p)[i].val)}}

\* the packages that the partitioner routes to the optional mapping
RoutedOptional(p) ==
    {TableOf(p)[i].key : i \in
        {i \in 1..Len(TableOf(p)) :
            /\ TableOf(p)[i].val.kind = "table"
            /\ IsOptional(TableOf(p)[i].val)
            /\ ~HasExtras(TableOf(p)[i].val)}}

\* the extras declaration names a package that was never marked optional
NamesUnmarked(p) == ExtrasPackages(p) \ MarkedOptional(p) # {}

\* every value of the dependency table of p is one the partitioner accepts
AllAccepted(p) ==
    \A i \in 1..Len(TableOf(p)) :
        LET v == TableOf(p)[i].val
        IN  IF v.kind = "str" THEN Translatable(v.s)
            ELSE /\ HasExtras(v) \/ IsOptional(v)
                 /\ IsSome(v.version)
                 /\ Translatable(Get(v.version))

-----------------------------------------------------------------------------
(* C6 *)

\* a section with a python pseudo-dependency and scalar caret or wildcard
\* constraints, and without authors, license or dev group
Minimal(p) ==
    /\ p.authors = None /\ p.license = None /\ p.group = None
    /\ HasKey(TableOf(p), PYTHON)
    /\ \A i \in 1..Len(TableOf(p)) :
           TableOf(p)[i].val.kind = "str" /\ Translatable(TableOf(p)[i].val.s)

\* C6: end to end, such a document gives requires-python equal to the
\* translated python constraint, project.dependencies equal to the list of
\* name<translated constraint> of the other packages in table order, and
\* the placeholder author.
C6_EndToEnd ==
    (pc = "done" /\ Minimal(file_project)) =>
        LET others == SelectSeq(TableOf(file_project), LAMBDA e : e.key # PYTHON)
        IN  /\ project.requires_python =
                   Some(Translated(Lookup(TableOf(file_project), PYTHON).s))
            /\ project.dependencies =
                   Some(DepList([i \in 1..Len(others) |->
                                    others[i].key \o Translated(others[i].val.s)]))
            /\ project.authors = Some(AuthorStr(Placeholder))

-----------------------------------------------------------------------------
(* C7 *)

\* C7: after the pipeline the tool section of the target holds exactly the
\* keys of the source's tool section other than poetry, each with the value
\* of the source; the passthrough of a tool section without a poetry key is
\* that section.
C7_ForeignToolsCopied ==
    /\ pc \in AfterTools =>
           /\ Keys(uv_tool) = Keys(pyproject_tool) \ {"poetry"}
           /\ Len(uv_tool) = Cardinality(Keys(uv_tool))
           /\ \A k \in Keys(uv_tool) : Lookup(uv_tool, k) = Lookup(pyproject_tool, k)
    /\ ~HasKey(pyproject_tool, "poetry") => tools(<<>>, pyproject_tool) = pyproject_tool

\* a run has ended on a source with two foreign tools around poetry
C7_Witness ==
    /\ pc = "done"
    /\ Len(pyproject_tool) = 3
    /\ Len(uv_tool) = 2

-----------------------------------------------------------------------------
(* C8 *)

\* C8: in replace mode the original is moved or replaced only once the
\* output text is computed (transformation, serialization, authors-line
\* patch), and a run that fails leaves the original in place, unchanged,
\* with no backup and no output file.
C8_ReplacedAfterComputed ==
    /\ (~dry_run /\ (project_file # "original" \/ backup_file # "absent")) =>
           IsSome(result)
    /\ pc = "aborted" =>
           project_file = "original" /\ backup_file = "absent" /\ temp_file = "absent"

-----------------------------------------------------------------------------
(* C10 *)

\* what the partitioner puts in the main list for one entry it accepts
EntryOutput(e) ==
    IF e.val.kind = "str" THEN <<e.key \o Translated(e.val.s)>>
    ELSE IF HasExtras(e.val)
    THEN [i \in 1..Len(Get(e.val.extras)) |->
             e.key \o <<"[">> \o Get(e.val.extras)[i] \o <<"]">>
             \o Translated(Get(e.val.version))]
    ELSE <<>>

\* C10: when project.group.dev.dependencies is not empty, the dev migration
\* leaves dependency-groups.dev equal to the partitioner's output over that
\* table in table order, removes group.dev, removes group exactly when no
\* other group remains and keeps the other groups as they are, and adds no
\* dev package to project.dependencies or to the optional dependencies;
\* when there is no dev table the document is left as it is.
C10_DevRelocated ==
    [][(pc = "dev_dependencies" /\ pc' = "dependencies") =>
          IF DevDeps(project) # <<>>
          THEN /\ dependency_groups' =
                      Some(<<[key |-> "dev",
                              val |-> Flatten([i \in 1..Len(DevDeps(project)) |->
                                                  EntryOutput(DevDeps(project)[i])])]>>)
               /\ IF Get(project.group).others = <<>>
                  THEN project'.group = None
                  ELSE /\ IsSome(project'.group)
                       /\ Get(project'.group).dev = None
                       /\ Get(project'.group).others = Get(project.group).others
               /\ project' = [project EXCEPT !.group = project'.group]
          ELSE UNCHANGED <<project, dependency_groups>>]_vars

\* a dev table of two packages has been moved, and the group table, which
\* held nothing else, is gone
C10_Witness ==
    /\ pc = "dependencies"
    /\ IsSome(file_project.group)
    /\ Get(file_project.group).others = <<>>
    /\ project.group = None
    /\ IsSome(dependency_groups)
    /\ Len(dependency_groups[1][1].val) >= 2

====
